---- MODULE Spec2Model ----
(***************************************************************************)
(* Model of pybamm/models/submodels/electrode/base_electrode.py:           *)
(* class BaseElectrode, its validated _domain property, the two variable   *)
(* derivers and the whole-cell current assembler.                          *)
(*                                                                         *)
(* A pybamm symbol is a record [term, val]: term is the expression tree    *)
(* in prefix notation (a sequence of tokens, every operator of fixed       *)
(* arity, so two symbols have the same term iff they are the same          *)
(* expression), val is the field the expression denotes on a grid of       *)
(* NumPoints points per region (a scalar is the constant field).           *)
(***************************************************************************)
EXTENDS Integers, Sequences, FiniteSets, TLC

\* ---------------------------------------------------------------- bounds
NumPoints == 2      \* grid points per region

\* ------------------------------------------------------- symbolic algebra
RECURSIVE SumTo(_, _)
SumTo(f, n) == IF n = 0 THEN 0 ELSE f[n] + SumTo(f, n - 1)

Const(c) == [x \in 1..NumPoints |-> c]

\* a named leaf of the expression tree
Leaf(name, field) == [term |-> <<name>>, val |-> field]

\* pybamm.Scalar-like number, as in Broadcast(0, ...)
Number(c) == [term |-> <<"Scalar", ToString(c)>>, val |-> Const(c)]

\* a + b
Addition(a, b) ==
    [term |-> <<"+">> \o a.term \o b.term,
     val |-> [x \in 1..NumPoints |-> a.val[x] + b.val[x]]]

\* a - b
Subtraction(a, b) ==
    [term |-> <<"-">> \o a.term \o b.term,
     val |-> [x \in 1..NumPoints |-> a.val[x] - b.val[x]]]

\* a * b
Multiplication(a, b) ==
    [term |-> <<"*">> \o a.term \o b.term,
     val |-> [x \in 1..NumPoints |-> a.val[x] * b.val[x]]]

\* pybamm.average(symbol): the mean of the field over its region
average(symbol) ==
    [term |-> <<"average">> \o symbol.term,
     val |-> Const(SumTo(symbol.val, NumPoints) \div NumPoints)]

\* pybamm.BoundaryValue(symbol, side)
BoundaryValue(symbol, side) ==
    [term |-> <<"BoundaryValue", side>> \o symbol.term,
     val |-> Const(IF side = "right" THEN symbol.val[NumPoints]
                                     ELSE symbol.val[1])]

\* pybamm.Broadcast(child, [region])
Broadcast(child, region) ==
    [term |-> <<"Broadcast", region>> \o child.term,
     val |-> child.val]

\* pybamm.Concatenation(a, b, c): the fields laid side by side
Concatenation(a, b, c) ==
    [term |-> <<"Concatenation">> \o a.term \o b.term \o c.term,
     val |-> a.val \o b.val \o c.val]

\* ------------------------------------------------------------ dictionaries
\* A Python dict is a function from its keys; a dict display
\* {k1: v1, k2: v2, ...} is evaluated left to right, a repeated key keeping
\* the last value.
EmptyDict == <<>>

DictDisplay(items) ==
    [key \in {items[n].k : n \in 1..Len(items)} |->
        items[CHOOSE n \in 1..Len(items) :
                /\ items[n].k = key
                /\ \A m \in 1..Len(items) : items[m].k = key => m <= n].v]

\* dict.update(other): other's entries win
update(d, other) ==
    [key \in DOMAIN d \cup DOMAIN other |->
        IF key \in DOMAIN other THEN other[key] ELSE d[key]]

Item(key, value) == [k |-> key, v |-> value]

\* fault injected: the "Average ..." keys built without .lower()
lower_Omitted(s) == s

\* str.lower() on the strings a caller passes as a domain
lower(s) ==
    CASE s = "Negative" -> "negative"
      [] s = "Positive" -> "positive"
      [] s = "Middle"   -> "middle"
      [] OTHER          -> s

\* ------------------------------------------------------------- parameters
\* The parameter object handed to the constructor: named scalar symbols.
ParamNames == {"param"}

ParamAttr(pname, attr, c) == Leaf(pname \o "." \o attr, Const(c))

Param(pname) ==
    [name |-> pname,
     potential_scale |-> ParamAttr(pname, "potential_scale", 3),
     U_p_ref |-> ParamAttr(pname, "U_p_ref", 4),
     U_n_ref |-> ParamAttr(pname, "U_n_ref", 1),
     i_typ |-> ParamAttr(pname, "i_typ", 5)]

\* The input symbols a caller passes: fields whose values are multiples of
\* NumPoints, so that the mean is exact in integer arithmetic.
InputSym(name, n) ==
    Leaf(name,
         [x \in 1..NumPoints |-> NumPoints * ((n + x) % 3)])

Symbols == {InputSym("sym_a", 1), InputSym("sym_b", 2)}

\* the strings a caller may pass as a domain
DomainStrings == {"Negative", "Positive", "Middle", "negative"}

\* ------------------------------------------------------------ the class
\* An instance is the function from the attributes assigned so far to their
\* values: "param" (a parameter object's name) and "__domain".
NoAttributes == <<>>

SetAttr(self, attr, value) ==
    [a \in DOMAIN self \cup {attr} |-> IF a = attr THEN value ELSE self[a]]

\* a call's outcome: the exception raised ("none" when it returns) and the
\* instance as the call leaves it
Outcome(exc, self) == [raised |-> exc, self |-> self]

\* pybamm.BaseSubModel.__init__(self, param): stores the parameter object
BaseSubModel__init__(self, param) == SetAttr(self, "param", param)

\* fault injected: the setter stores the value before it validates it
_domain_setter_StoreFirst(self, domain) ==
    IF domain \in {"Negative", "Positive"}
    THEN Outcome("none", SetAttr(self, "__domain", domain))
    ELSE Outcome("DomainError", SetAttr(self, "__domain", domain))

\* fault injected: the setter compares case-insensitively and stores what it got
_domain_setter_AnyCase(self, domain) ==
    IF lower(domain) \in {"negative", "positive"}
    THEN Outcome("none", SetAttr(self, "__domain", domain))
    ELSE Outcome("DomainError", self)

\* @_domain.setter
_domain_setter(self, domain) ==
    IF domain \in {"Negative", "Positive"}
    THEN Outcome("none", SetAttr(self, "__domain", domain))
    ELSE Outcome("DomainError", self)

\* @property _domain
_domain(self) == self["__domain"]

\* BaseElectrode.__init__(self, param, domain)
__init__(self, param, domain) ==
    _domain_setter(BaseSubModel__init__(self, param), domain)

\* the branch of _get_standard_potential_variables taken for a domain; with
\* neither taken, phi_s_dim and delta_phi_s are unbound at their first use
PotentialBranch(domain) ==
    IF domain = "Negative" THEN "Negative"
    ELSE IF domain = "Positive" THEN "Positive"
    ELSE "UnboundLocalError"

\* fault injected: the reference offset applied in the Negative branch as well
phi_s_dim_OffsetAlways(self, phi_s) ==
    LET param == Param(self["param"]) IN
    Addition(Subtraction(param.U_p_ref, param.U_n_ref),
             Multiplication(param.potential_scale, phi_s))

phi_s_dim(self, phi_s) ==
    LET param == Param(self["param"]) IN
    IF PotentialBranch(_domain(self)) = "Negative"
    THEN Multiplication(param.potential_scale, phi_s)
    ELSE Addition(Subtraction(param.U_p_ref, param.U_n_ref),
                  Multiplication(param.potential_scale, phi_s))

\* fault injected: the Positive average potential without the reference offset
phi_s_av_dim_NoOffset(self, phi_s) ==
    LET param == Param(self["param"]) IN
    Multiplication(param.potential_scale, average(phi_s))

phi_s_av_dim(self, phi_s) ==
    LET param == Param(self["param"])
        phi_s_av == average(phi_s) IN
    IF PotentialBranch(_domain(self)) = "Negative"
    THEN Multiplication(param.potential_scale, phi_s_av)
    ELSE Addition(Subtraction(param.U_p_ref, param.U_n_ref),
                  Multiplication(param.potential_scale, phi_s_av))

\* fault injected: the ohmic losses taken relative to the left boundary
delta_phi_s_LeftBoundary(self, phi_s) ==
    IF PotentialBranch(_domain(self)) = "Negative"
    THEN phi_s
    ELSE LET V == BoundaryValue(phi_s, "left") IN Subtraction(phi_s, V)

delta_phi_s(self, phi_s) ==
    IF PotentialBranch(_domain(self)) = "Negative"
    THEN phi_s
    ELSE LET V == BoundaryValue(phi_s, "right") IN Subtraction(phi_s, V)

PotentialItems(self, phi_s) ==
    LET param == Param(self["param"])
        phi_s_av == average(phi_s)
        delta_phi_s_av == average(delta_phi_s(self, phi_s))
        delta_phi_s_dim ==
            Multiplication(delta_phi_s(self, phi_s), param.potential_scale)
        delta_phi_s_av_dim ==
            Multiplication(delta_phi_s_av, param.potential_scale)
    IN  << Item(_domain(self) \o " electrode potential", phi_s),
           Item(_domain(self) \o " electrode potential [V]",
                phi_s_dim(self, phi_s)),
           Item("Average " \o lower(_domain(self)) \o " electrode potential",
                phi_s_av),
           Item("Average " \o lower(_domain(self))
                    \o " electrode potential [V]",
                phi_s_av_dim(self, phi_s)),
           Item(_domain(self) \o " electrode ohmic losses",
                delta_phi_s(self, phi_s)),
           Item(_domain(self) \o " electrode ohmic losses [V]",
                delta_phi_s_dim),
           Item("Average " \o lower(_domain(self))
                    \o " electrode ohmic losses",
                delta_phi_s_av),
           Item("Average " \o lower(_domain(self))
                    \o " electrode ohmic losses [V]",
                delta_phi_s_av_dim) >>

\* BaseElectrode._get_standard_potential_variables(self, phi_s)
_get_standard_potential_variables(self, phi_s) ==
    DictDisplay(PotentialItems(self, phi_s))

\* fault injected: the current density rescaled with the potential scale
CurrentItems_PotentialScale(self, i_s) ==
    LET param == Param(self["param"])
        i_s_dim == Multiplication(param.potential_scale, i_s)
    IN  << Item(_domain(self) \o " electrode current density", i_s),
           Item(_domain(self) \o " electrode current density [A.m-2]",
                i_s_dim) >>

\* fault injected: the current-density keys without the domain
CurrentItems_NoDomain(self, i_s) ==
    LET param == Param(self["param"])
        i_s_dim == Multiplication(param.i_typ, i_s)
    IN  << Item("Electrode current density", i_s),
           Item("Electrode current density [A.m-2]", i_s_dim) >>

CurrentItems(self, i_s) ==
    LET param == Param(self["param"])
        i_s_dim == Multiplication(param.i_typ, i_s)
    IN  << Item(_domain(self) \o " electrode current density", i_s),
           Item(_domain(self) \o " electrode current density [A.m-2]",
                i_s_dim) >>

\* BaseElectrode._get_standard_current_variables(self, i_s)
_get_standard_current_variables(self, i_s) ==
    DictDisplay(CurrentItems(self, i_s))

\* The dictionaries live on a heap, a function from the references in use
\* to the dictionaries' contents: "variables" is the caller's whole-model
\* dictionary, "fresh" the dictionary the last deriver call built.

\* fault injected: the positive electrode's entry looked up first
MissingKey_PositiveFirst(d) ==
    IF "Positive electrode current density" \notin DOMAIN d
    THEN "Positive electrode current density"
    ELSE IF "Negative electrode current density" \notin DOMAIN d
    THEN "Negative electrode current density"
    ELSE "none"

\* the first key of the whole-cell assembler's lookups that is missing
MissingKey(d) ==
    IF "Negative electrode current density" \notin DOMAIN d
    THEN "Negative electrode current density"
    ELSE IF "Positive electrode current density" \notin DOMAIN d
    THEN "Positive electrode current density"
    ELSE "none"

\* fault injected: the concatenation ordered positive, separator, negative
WholeCellCurrent_Reversed(d) ==
    LET i_s_n == d["Negative electrode current density"]
        i_s_s == Broadcast(Number(0), "separator")
        i_s_p == d["Positive electrode current density"]
    IN  Concatenation(i_s_p, i_s_s, i_s_n)

WholeCellCurrent(d) ==
    LET i_s_n == d["Negative electrode current density"]
        i_s_s == Broadcast(Number(0), "separator")
        i_s_p == d["Positive electrode current density"]
    IN  Concatenation(i_s_n, i_s_s, i_s_p)

\* BaseElectrode._get_standard_whole_cell_current_variables(self, variables)
\* on the dictionary that the reference `variables` names: the exception
\* raised, the heap as the call leaves it, and the reference returned
_get_standard_whole_cell_current_variables(heap, variables) ==
    IF MissingKey(heap[variables]) # "none"
    THEN [raised |-> "KeyError: " \o MissingKey(heap[variables]),
          heap |-> heap, ref |-> "none"]
    ELSE [raised |-> "none",
          heap |-> [heap EXCEPT ![variables] =
                      update(@, DictDisplay(<<Item("Electrode current density",
                                                   WholeCellCurrent(@))>>))],
          ref |-> variables]

\* ------------------------------------------------------------------ state
VARIABLES
    status,     \* per instance: "none" (not constructed), "live", "failed"
    attrs,      \* per instance: the attributes assigned so far
    heap,       \* the dictionaries in use, by reference
    ret,        \* the last call: operation, exception raised, reference returned
    freshTag,   \* history: the call that built heap["fresh"]
    merged      \* history: per group of keys, the deriver call last merged
                \* into heap["variables"]

vars == <<status, attrs, heap, ret, freshTag, merged>>

\* the BaseElectrode instances a caller creates
Objs == {"submodel1", "submodel2"}

\* arg: the domain string or the dictionary reference passed, for the calls
\* that take one
Return(op, arg, exc, ref) ==
    [op |-> op, arg |-> arg, raised |-> exc, ref |-> ref]

\* the deriver call a fresh dictionary comes from
Tag(kind, self, sym) ==
    [kind |-> kind, domain |-> _domain(self), param |-> self["param"],
     sym |-> sym]

NoTag == [kind |-> "none", domain |-> "none", param |-> "none",
          sym |-> Leaf("none", Const(0))]

\* two deriver calls feed the same group of keys
SameGroup(t, u) == t.kind = u.kind /\ t.domain = u.domain

Init ==
    /\ status = [o \in Objs |-> "none"]
    /\ attrs = [o \in Objs |-> NoAttributes]
    /\ heap = [r \in {"variables"} |-> EmptyDict]
    /\ ret = Return("none", "none", "none", "none")
    /\ freshTag = NoTag
    /\ merged = {}

\* BaseElectrode(param, domain): the instance exists for its caller only if
\* the initialiser returns
Construct(o, param, domain) ==
    /\ status[o] = "none"
    /\ LET r == __init__(NoAttributes, param, domain) IN
        /\ attrs' = [attrs EXCEPT ![o] = r.self]
        /\ status' = [status EXCEPT
                        ![o] = IF r.raised = "none" THEN "live" ELSE "failed"]
        /\ ret' = Return("__init__", domain, r.raised, "none")
    /\ UNCHANGED <<heap, freshTag, merged>>

\* submodel._domain = domain, on a constructed instance
SetDomain(o, domain) ==
    /\ status[o] = "live"
    /\ LET r == _domain_setter(attrs[o], domain) IN
        /\ attrs' = [attrs EXCEPT ![o] = r.self]
        /\ ret' = Return("_domain", domain, r.raised, "none")
    /\ UNCHANGED <<status, heap, freshTag, merged>>

\* a deriver call leaves its dictionary, built fresh, with the caller
Derived(kind, o, sym, d) ==
    /\ heap' = [r \in DOMAIN heap \cup {"fresh"} |->
                    IF r = "fresh" THEN d ELSE heap[r]]
    /\ freshTag' = Tag(kind, attrs[o], sym)
    /\ ret' = Return(kind, "none", "none", "fresh")
    /\ UNCHANGED <<status, attrs, merged>>

\* submodel._get_standard_potential_variables(phi_s)
GetPotential(o, phi_s) ==
    /\ status[o] = "live"
    /\ IF PotentialBranch(_domain(attrs[o])) = "UnboundLocalError"
       THEN /\ ret' = Return("potential", "none", "UnboundLocalError", "none")
            /\ UNCHANGED <<status, attrs, heap, freshTag, merged>>
       ELSE Derived("potential", o, phi_s,
                    _get_standard_potential_variables(attrs[o], phi_s))

\* submodel._get_standard_current_variables(i_s)
GetCurrent(o, i_s) ==
    /\ status[o] = "live"
    /\ Derived("current", o, i_s,
               _get_standard_current_variables(attrs[o], i_s))

\* the caller's variables.update(<the deriver's dictionary>); the deriver's
\* dictionary is dropped afterwards
Merge ==
    /\ "fresh" \in DOMAIN heap
    /\ heap' = [r \in {"variables"} |->
                    update(heap["variables"], heap["fresh"])]
    /\ merged' = {t \in merged : ~SameGroup(t, freshTag)} \cup {freshTag}
    /\ freshTag' = NoTag
    /\ ret' = Return("update", "none", "none", "none")
    /\ UNCHANGED <<status, attrs>>

\* submodel._get_standard_whole_cell_current_variables(<dictionary ref>)
Assemble(o, ref) ==
    /\ status[o] = "live"
    /\ ref \in DOMAIN heap
    /\ LET r == _get_standard_whole_cell_current_variables(heap, ref) IN
        /\ heap' = r.heap
        /\ ret' = Return("whole_cell", ref, r.raised, r.ref)
    /\ UNCHANGED <<status, attrs, freshTag, merged>>

Next ==
    \/ \E o \in Objs, param \in ParamNames, domain \in DomainStrings :
            Construct(o, param, domain)
    \/ \E o \in Objs, domain \in DomainStrings : SetDomain(o, domain)
    \/ \E o \in Objs, phi_s \in Symbols : GetPotential(o, phi_s)
    \/ \E o \in Objs, i_s \in Symbols : GetCurrent(o, i_s)
    \/ Merge
    \/ \E o \in Objs, ref \in {"variables", "fresh"} : Assemble(o, ref)

Spec == Init /\ [][Next]_vars

TypeOK ==
    /\ \A o \in Objs : status[o] \in {"none", "live", "failed"}
    /\ DOMAIN heap \subseteq {"variables", "fresh"}

\* ------------------------------------------------- vocabulary of the claims
Points == 1..NumPoints

\* the dictionary a deriver of the given kind returned last, still at hand
Returned(kind) == "fresh" \in DOMAIN heap /\ freshTag.kind = kind

ScaleTok == "param.potential_scale"
UpTok == "param.U_p_ref"
UnTok == "param.U_n_ref"
ItypTok == "param.i_typ"

ScaleVal == Param("param").potential_scale.val[1]
OffsetVal == Param("param").U_p_ref.val[1] - Param("param").U_n_ref.val[1]
ItypVal == Param("param").i_typ.val[1]

Mean(field) == SumTo(field, NumPoints) \div NumPoints

\* C1 (as stated): an instance whose construction failed with a domain
\* error has no attribute assigned at all, neither the domain nor the
\* parameter object.
C1_NoAttributeAssigned ==
    \A o \in Objs : status[o] = "failed" => DOMAIN attrs[o] = {}

\* C1 (amended): construction with a domain string outside
\* {"Negative", "Positive"} fails with DomainError and never assigns the
\* domain; the base-class initialiser has run before the validation, so the
\* parameter object is the one attribute the abandoned instance carries.
C1_FailedConstruction ==
    /\ \A o \in Objs :
          status[o] = "failed" => DOMAIN attrs[o] = {"param"}
    /\ ret.op = "__init__" =>
          /\ (ret.arg \notin {"Negative", "Positive"}) =
                (ret.raised = "DomainError")
          /\ ret.raised \in {"none", "DomainError"}
    /\ \A o \in Objs :
          status[o] = "live" => DOMAIN attrs[o] = {"param", "__domain"}

C1_Witness ==
    /\ ret.op = "__init__" /\ ret.arg = "Middle"
    /\ ret.raised = "DomainError"
    /\ \E o \in Objs : status[o] = "failed" /\ "param" \in DOMAIN attrs[o]

\* C2: on a Positive instance the potential deriver returns
\* "Positive electrode potential [V]" = (U_p_ref - U_n_ref) +
\* potential_scale * phi and "Positive electrode ohmic losses" =
\* phi - BoundaryValue(phi, "right"); the offset is in the potential and the
\* average potential, and in neither ohmic-loss entry.
C2_PositivePotential ==
    (Returned("potential") /\ freshTag.domain = "Positive") =>
    LET d == heap["fresh"]
        phi == freshTag.sym
        loss == <<"-">> \o phi.term \o <<"BoundaryValue", "right">>
                    \o phi.term
    IN  /\ d["Positive electrode potential"] = phi
        /\ d["Positive electrode potential [V]"].term =
              <<"+", "-", UpTok, UnTok, "*", ScaleTok>> \o phi.term
        /\ d["Positive electrode potential [V]"].val =
              [x \in Points |-> OffsetVal + ScaleVal * phi.val[x]]
        /\ d["Average positive electrode potential [V]"].term =
              <<"+", "-", UpTok, UnTok, "*", ScaleTok, "average">>
                  \o phi.term
        /\ d["Average positive electrode potential [V]"].val =
              [x \in Points |-> OffsetVal + ScaleVal * Mean(phi.val)]
        /\ d["Positive electrode ohmic losses"].term = loss
        /\ d["Positive electrode ohmic losses"].val =
              [x \in Points |-> phi.val[x] - phi.val[NumPoints]]
        /\ d["Positive electrode ohmic losses [V]"].term =
              <<"*">> \o loss \o <<ScaleTok>>
        /\ d["Average positive electrode ohmic losses [V]"].term =
              <<"*", "average">> \o loss \o <<ScaleTok>>
        /\ d["Average positive electrode ohmic losses [V]"].val =
              [x \in Points |->
                  ScaleVal * (Mean(phi.val) - phi.val[NumPoints])]

C2_Witness ==
    /\ Returned("potential") /\ freshTag.domain = "Positive"
    /\ ret.op = "potential" /\ ret.ref = "fresh"
    /\ freshTag.sym.val[NumPoints] # 0

\* C3: on a Negative instance the potential deriver returns
\* "Negative electrode potential [V]" = potential_scale * phi with no
\* offset, and "Negative electrode ohmic losses" is phi itself.
C3_NegativePotential ==
    (Returned("potential") /\ freshTag.domain = "Negative") =>
    LET d == heap["fresh"]
        phi == freshTag.sym
    IN  /\ d["Negative electrode potential"] = phi
        /\ d["Negative electrode potential [V]"].term =
              <<"*", ScaleTok>> \o phi.term
        /\ d["Negative electrode potential [V]"].val =
              [x \in Points |-> ScaleVal * phi.val[x]]
        /\ d["Negative electrode ohmic losses"] = phi

C3_Witness ==
    /\ Returned("potential") /\ freshTag.domain = "Negative"
    /\ ret.op = "potential" /\ ret.ref = "fresh"
    /\ freshTag.sym.val[NumPoints] # 0

\* the four derived variables of a domain and their "Average ..." keys
Plain(domain, quantity, unit) ==
    domain \o " electrode " \o quantity \o unit

Averaged(domain, quantity, unit) ==
    "Average " \o lower(domain) \o " electrode " \o quantity \o unit

Quantities == {"potential", "ohmic losses"}

\* C4 (as stated): for both domains, the averaging operator applied to each
\* of potential, potential [V], ohmic losses, ohmic losses [V] is the
\* expression stored under the corresponding "Average ..." key.
C4_AverageOfEveryEntry ==
    Returned("potential") =>
    \A q \in Quantities, unit \in {"", " [V]"} :
        average(heap["fresh"][Plain(freshTag.domain, q, unit)])
            = heap["fresh"][Averaged(freshTag.domain, q, unit)]

\* C4 (amended): for both domains, the averaging operator applied to the
\* non-dimensional potential and ohmic losses is the expression stored
\* under the corresponding "Average ..." key; each "Average ... [V]" entry
\* is instead the rescaling of the non-dimensional average (with the
\* reference offset for the Positive potential), an expression different
\* from the average of the [V] entry that denotes the same field.
C4_AverageEntries ==
    Returned("potential") =>
    LET d == heap["fresh"]
        dom == freshTag.domain
        offset == IF dom = "Positive" THEN <<"+", "-", UpTok, UnTok>>
                                      ELSE <<>>
    IN  /\ \A q \in Quantities :
              average(d[Plain(dom, q, "")]) = d[Averaged(dom, q, "")]
        /\ \A q \in Quantities :
              /\ average(d[Plain(dom, q, " [V]")]).val
                    = d[Averaged(dom, q, " [V]")].val
              /\ average(d[Plain(dom, q, " [V]")]).term
                    # d[Averaged(dom, q, " [V]")].term
        /\ d[Averaged(dom, "potential", " [V]")].term =
              offset \o <<"*", ScaleTok>>
                     \o d[Averaged(dom, "potential", "")].term
        /\ d[Averaged(dom, "ohmic losses", " [V]")].term =
              <<"*">> \o d[Averaged(dom, "ohmic losses", "")].term
                      \o <<ScaleTok>>

C4_Witness ==
    /\ Returned("potential") /\ freshTag.domain = "Positive"
    /\ ret.op = "potential"
    /\ heap["fresh"]["Average positive electrode ohmic losses"].val[1] # 0

NegKey == "Negative electrode current density"
PosKey == "Positive electrode current density"
WholeKey == "Electrode current density"

\* the last call was the whole-cell assembler and it returned
Assembled == ret.op = "whole_cell" /\ ret.raised = "none"

\* C5: given a dictionary with "Negative electrode current density" = A and
\* "Positive electrode current density" = B, the whole-cell assembler stores
\* under "Electrode current density" the concatenation [A, zero broadcast
\* over the separator, B], returns the dictionary it was given, updated in
\* place, and leaves A, B and every other entry as they were.
C5_WholeCellInPlace ==
    [][ Assembled' =>
        /\ ret'.ref = ret'.arg
        /\ DOMAIN heap' = DOMAIN heap
        /\ \A r \in DOMAIN heap \ {ret'.arg} : heap'[r] = heap[r]
        /\ LET d == heap[ret'.arg]
               e == heap'[ret'.arg]
           IN  /\ DOMAIN e = DOMAIN d \cup {WholeKey}
               /\ \A key \in DOMAIN d \ {WholeKey} : e[key] = d[key]
               /\ e[WholeKey].term =
                     <<"Concatenation">> \o d[NegKey].term
                        \o <<"Broadcast", "separator", "Scalar", "0">>
                        \o d[PosKey].term
               /\ e[WholeKey].val =
                     d[NegKey].val \o [x \in Points |-> 0] \o d[PosKey].val
      ]_vars

C5_Witness ==
    /\ Assembled /\ ret.ref = "variables"
    /\ heap["variables"][NegKey] # heap["variables"][PosKey]
    /\ "Positive electrode ohmic losses [V]" \in DOMAIN heap["variables"]
    /\ heap["variables"][WholeKey].val[1] # 0

\* C6: the whole-cell assembler fails with a lookup error on a dictionary
\* that lacks either current-density key, and leaves the dictionary alone;
\* it returns only on the whole-model dictionary after the current
\* variables of both electrodes have been merged into it.
C6_LookupError ==
    [][ ret'.op = "whole_cell" =>
        LET d == heap[ret'.arg] IN
        /\ NegKey \notin DOMAIN d =>
              ret'.raised = "KeyError: Negative electrode current density"
        /\ (NegKey \in DOMAIN d /\ PosKey \notin DOMAIN d) =>
              ret'.raised = "KeyError: Positive electrode current density"
        /\ ret'.raised # "none" => heap' = heap /\ ret'.ref = "none"
        /\ ret'.raised = "none" =>
              /\ ret'.arg = "variables"
              /\ \E t \in merged :
                    t.kind = "current" /\ t.domain = "Negative"
              /\ \E t \in merged :
                    t.kind = "current" /\ t.domain = "Positive"
      ]_vars

C6_Witness ==
    /\ ret.op = "whole_cell" /\ ret.arg = "variables"
    /\ ret.raised = "KeyError: Positive electrode current density"
    /\ NegKey \in DOMAIN heap["variables"]
    /\ WholeKey \notin DOMAIN heap["variables"]

\* C7: for either domain, the current deriver returns exactly two entries:
\* "<Domain> electrode current density" = i, the input symbol, and
\* "<Domain> electrode current density [A.m-2]" = i_typ * i.
C7_CurrentVariables ==
    Returned("current") =>
    LET d == heap["fresh"]
        i == freshTag.sym
        key == IF freshTag.domain = "Negative" THEN NegKey ELSE PosKey
        keyDim ==
            IF freshTag.domain = "Negative"
            THEN "Negative electrode current density [A.m-2]"
            ELSE "Positive electrode current density [A.m-2]"
    IN  /\ freshTag.domain \in {"Negative", "Positive"}
        /\ DOMAIN d = {key, keyDim}
        /\ d[key] = i
        /\ d[keyDim].term = <<"*", ItypTok>> \o i.term
        /\ d[keyDim].val = [x \in Points |-> ItypVal * i.val[x]]

C7_Witness ==
    /\ Returned("current") /\ freshTag.domain = "Positive"
    /\ ret.op = "current" /\ ret.ref = "fresh"
    /\ freshTag.sym.val[1] # 0

NegativePotentialKeys ==
    { "Negative electrode potential",
      "Negative electrode potential [V]",
      "Average negative electrode potential",
      "Average negative electrode potential [V]",
      "Negative electrode ohmic losses",
      "Negative electrode ohmic losses [V]",
      "Average negative electrode ohmic losses",
      "Average negative electrode ohmic losses [V]" }

PositivePotentialKeys ==
    { "Positive electrode potential",
      "Positive electrode potential [V]",
      "Average positive electrode potential",
      "Average positive electrode potential [V]",
      "Positive electrode ohmic losses",
      "Positive electrode ohmic losses [V]",
      "Average positive electrode ohmic losses",
      "Average positive electrode ohmic losses [V]" }

\* C8: the keys the potential deriver returns depend on the domain alone
\* and are eight distinct names: potential and ohmic losses, with and
\* without "Average " and with and without " [V]", the domain in lower case
\* after "Average " and capitalised otherwise.
C8_PotentialKeys ==
    Returned("potential") =>
        /\ DOMAIN heap["fresh"] =
              (IF freshTag.domain = "Negative" THEN NegativePotentialKeys
                                               ELSE PositivePotentialKeys)
        /\ Cardinality(DOMAIN heap["fresh"]) = 8

C8_Witness ==
    /\ Returned("potential") /\ freshTag.domain = "Negative"
    /\ freshTag.sym = InputSym("sym_b", 2)
    /\ "Average negative electrode ohmic losses [V]" \in DOMAIN heap["fresh"]

ValidDomains == {"Negative", "Positive"}

\* C9: whatever is assigned to _domain after construction, the stored
\* domain of an instance is "Negative" or "Positive": a recognised value
\* replaces it, any other value raises DomainError and leaves it as it
\* was, so the potential deriver always finds a branch to take.
C9_DomainStaysValid ==
    /\ [](\A o \in Objs :
            status[o] = "live" => _domain(attrs[o]) \in ValidDomains)
    /\ [](ret.raised # "UnboundLocalError")
    /\ [][ ret'.op = "_domain" =>
           /\ status' = status
           /\ IF ret'.arg \in ValidDomains
              THEN /\ ret'.raised = "none"
                   /\ \E o \in Objs :
                        /\ status[o] = "live"
                        /\ _domain(attrs'[o]) = ret'.arg
                        /\ attrs'[o]["param"] = attrs[o]["param"]
                        /\ \A other \in Objs \ {o} :
                              attrs'[other] = attrs[other]
              ELSE /\ ret'.raised = "DomainError"
                   /\ attrs' = attrs
         ]_vars

C9_Witness ==
    /\ ret.op = "_domain" /\ ret.arg = "negative"
    /\ ret.raised = "DomainError"
    /\ \E o \in Objs : status[o] = "live" /\ _domain(attrs[o]) = "Positive"
    /\ Returned("potential") /\ freshTag.domain = "Negative"

\* the dictionary a merged deriver call returned
Output(t) ==
    LET self == SetAttr(SetAttr(NoAttributes, "param", t.param),
                        "__domain", t.domain)
    IN  IF t.kind = "potential"
        THEN _get_standard_potential_variables(self, t.sym)
        ELSE _get_standard_current_variables(self, t.sym)

Groups == {"potential", "current"} \X ValidDomains

AllMerged ==
    \A g \in Groups : \E t \in merged : t.kind = g[1] /\ t.domain = g[2]

\* C10: the keys of the potential and the current deriver for Negative and
\* for Positive, with the assembler's "Electrode current density", are 21
\* distinct strings; so a merge of a deriver's output into the whole-model
\* dictionary overwrites no entry of another deriver or of the assembler,
\* and the dictionary the assembler leaves after the merges is determined
\* by the calls merged, not by their order.
C10_DistinctKeys ==
    /\ []((AllMerged /\ WholeKey \in DOMAIN heap["variables"]) =>
            Cardinality(DOMAIN heap["variables"]) = 21)
    /\ [][ ret'.op = "update" =>
           /\ WholeKey \notin DOMAIN heap["fresh"]
           /\ (~ \E t \in merged : SameGroup(t, freshTag)) =>
                 DOMAIN heap["fresh"] \cap DOMAIN heap["variables"] = {}
         ]_vars
    /\ []((Assembled /\ ret.ref = "variables") =>
            LET whole == heap["variables"] IN
            /\ DOMAIN whole \ {WholeKey} =
                  UNION {DOMAIN Output(t) : t \in merged}
            /\ \A t \in merged :
                  LET out == Output(t) IN
                  \A key \in DOMAIN out : whole[key] = out[key]
            /\ \E n, p \in merged :
                  /\ n.kind = "current" /\ n.domain = "Negative"
                  /\ p.kind = "current" /\ p.domain = "Positive"
                  /\ whole[WholeKey].term =
                        <<"Concatenation">> \o n.sym.term
                            \o <<"Broadcast", "separator", "Scalar", "0">>
                            \o p.sym.term)

C10_Witness ==
    /\ AllMerged /\ Assembled /\ ret.ref = "variables"
    /\ Cardinality(DOMAIN heap["variables"]) = 21
    /\ \E t \in merged : t.sym = InputSym("sym_a", 1)
    /\ \E t \in merged : t.sym = InputSym("sym_b", 2)
====
